---- MODULE Spec2Model ----
(***************************************************************************)
(* FrameWork Forge (src/app.js): the rule-based recommendation engine      *)
(* (computeRecommendationScore, generateRecommendation, buildExplanation,  *)
(* buildReasonChips) and the selection bookkeeping around it.              *)
(*                                                                         *)
(* JavaScript numbers are IEEE-754 doubles.  Every value the scoring code  *)
(* can produce is a multiple of 2^-57 below 2^9 in magnitude, so a double  *)
(* is modelled exactly as a fixed-point integer N (value = N * 2^-57) held *)
(* in three limbs <<h, m, l>>, N = h*2^38 + m*2^19 + l, with 0 <= m, l <   *)
(* 2^19 and h signed.  After every multiplication and addition the exact   *)
(* result is rounded to 53 significant bits, ties to even, as the          *)
(* hardware does.                                                          *)
(***************************************************************************)
EXTENDS Integers, Sequences, FiniteSets, TLC

(***************************************************************************)
(* IEEE-754 double arithmetic                                              *)
(***************************************************************************)
Limb == 524288

NaN == <<0, -1, 0>>

IsNaN(x) == x[2] = -1

RECURSIVE Pow2(_)
Pow2(n) == IF n <= 0 THEN 1 ELSE 2 * Pow2(n - 1)

RECURSIVE BitLen(_)
BitLen(n) == IF n <= 0 THEN 0 ELSE 1 + BitLen(n \div 2)

\* carry propagation: any three integers to the canonical limbs
Norm(h, m, l) ==
    LET l2 == l % Limb
        m1 == m + ((l - l2) \div Limb)
        m2 == m1 % Limb
    IN  <<h + ((m1 - m2) \div Limb), m2, l2>>

Add(x, y) == Norm(x[1] + y[1], x[2] + y[2], x[3] + y[3])

Neg(x) == Norm(0 - x[1], 0 - x[2], 0 - x[3])

FromInt(n) == <<n * Limb, 0, 0>>

\* number of significant bits of a non-negative value
Width(x) ==
    IF x[1] > 0 THEN 38 + BitLen(x[1])
    ELSE IF x[2] > 0 THEN 19 + BitLen(x[2])
    ELSE BitLen(x[3])

\* round a non-negative exact value to 53 significant bits, ties to even
RoundMagnitude(x) ==
    LET d == Width(x) - 53
    IN  IF d <= 0 THEN x
        ELSE LET q    == Pow2(d)
                 r    == x[3] % q
                 base == x[3] - r
                 up   == (2 * r > q) \/ (2 * r = q /\ (base \div q) % 2 = 1)
             IN  Norm(x[1], x[2], IF up THEN base + q ELSE base)

RoundToDouble(x) ==
    IF x[1] < 0 THEN Neg(RoundMagnitude(Neg(x))) ELSE RoundMagnitude(x)

\* a + b on doubles
FAdd(x, y) ==
    IF IsNaN(x) \/ IsNaN(y) THEN NaN ELSE RoundToDouble(Add(x, y))

\* the double nearest to the decimal literals of the scoring rules
W050 == <<262144, 0, 0>>
W020 == <<104857, 314572, 419432>>
W030 == <<157286, 209715, 104856>>
W035 == <<183500, 419430, 209712>>
W025 == <<131072, 0, 0>>
W015 == <<78643, 104857, 314572>>
W040 == <<209715, 104857, 314576>>
W005 == <<26214, 209715, 104858>>

\* n * w on doubles, n an integer metric in 0..100
FMulInt(n, w) == RoundToDouble(Norm(n * w[1], n * w[2], n * w[3]))

\* Math.round(NaN) is NaN; a score is an integer, so NaN gets a value no
\* score can take
NaNScore == -1000000

\* Math.round: the nearest integer, ties towards +Infinity (-0 is 0)
MathRound(x) ==
    IF IsNaN(x) THEN NaNScore
    ELSE Add(x, <<Limb \div 2, 0, 0>>)[1] \div Limb

(***************************************************************************)
(* Catalog data                                                            *)
(***************************************************************************)
\* a framework record: id, type, scores (a function over the metric keys it
\* has) and, when the key is present, tags
Fw(id, type, pf, lc, cs, jd, sc, tags) ==
    [id |-> id, type |-> type,
     scores |-> [performance |-> pf, learningCurve |-> lc,
                 communitySupport |-> cs, jobDemand |-> jd,
                 scalability |-> sc],
     tags |-> tags]

FALLBACK_DATA ==
    << Fw("react", "Frontend", 90, 70, 95, 95, 88,
          {"beginner-friendly", "high-demand", "fast-development", "spa"}),
       Fw("angular", "Frontend", 85, 45, 85, 80, 95,
          {"enterprise", "large-scale", "scalable"}),
       Fw("vue", "Frontend", 88, 88, 80, 75, 82,
          {"beginner-friendly", "fast-development", "lightweight"}),
       Fw("django", "Backend", 78, 72, 85, 82, 88,
          {"beginner-friendly", "fast-development", "backend"}),
       Fw("laravel", "Backend", 75, 75, 82, 78, 80,
          {"beginner-friendly", "fast-development", "backend"}),
       Fw("express", "Backend", 92, 80, 90, 88, 85,
          {"fast-development", "high-performance", "backend", "real-time"}) >>

(***************************************************************************)
(* computeRecommendationScore                                              *)
(***************************************************************************)
\* s.<key> * w: a missing key reads undefined, and undefined * w is NaN
Times(fw, key, w) ==
    IF key \in DOMAIN fw.scores THEN FMulInt(fw.scores[key], w) ELSE NaN

\* const tags = fw.tags || []
TagsOf(fw) == IF "tags" \in DOMAIN fw THEN fw.tags ELSE {}

\* if (cond) score += n
Bonus(score, cond, n) == IF cond THEN FAdd(score, FromInt(n)) ELSE score

\* the advanced branch with one bonus for each of its two tags
ExperienceRulesPerTag(score, fw, experience) ==
    LET tags == TagsOf(fw)
    IN  IF experience = "beginner" THEN
            Bonus(FAdd(score, Times(fw, "learningCurve", W050)),
                  "beginner-friendly" \in tags, 30)
        ELSE IF experience = "intermediate" THEN
            Bonus(FAdd(FAdd(score, Times(fw, "learningCurve", W020)),
                       Times(fw, "performance", W030)),
                  "fast-development" \in tags, 15)
        ELSE
            Bonus(Bonus(FAdd(FAdd(score, Times(fw, "performance", W035)),
                             Times(fw, "scalability", W025)),
                        "enterprise" \in tags, 20),
                  "large-scale" \in tags, 20)

ExperienceRules(score, fw, experience) ==
    LET tags == TagsOf(fw)
    IN  IF experience = "beginner" THEN
            Bonus(FAdd(score, Times(fw, "learningCurve", W050)),
                  "beginner-friendly" \in tags, 30)
        ELSE IF experience = "intermediate" THEN
            Bonus(FAdd(FAdd(score, Times(fw, "learningCurve", W020)),
                       Times(fw, "performance", W030)),
                  "fast-development" \in tags, 15)
        ELSE
            Bonus(FAdd(FAdd(score, Times(fw, "performance", W035)),
                       Times(fw, "scalability", W025)),
                  "enterprise" \in tags \/ "large-scale" \in tags, 20)

\* the medium branch with the weight of the large branch on communitySupport
ScaleRulesMediumAsLarge(score, fw, scale) ==
    LET tags == TagsOf(fw)
    IN  IF scale = "small" THEN
            Bonus(FAdd(score, Times(fw, "learningCurve", W020)),
                  "lightweight" \in tags \/ "fast-development" \in tags, 15)
        ELSE IF scale = "medium" THEN
            FAdd(FAdd(score, Times(fw, "performance", W020)),
                 Times(fw, "communitySupport", W020))
        ELSE
            Bonus(FAdd(FAdd(score, Times(fw, "scalability", W040)),
                       Times(fw, "communitySupport", W020)),
                  "enterprise" \in tags \/ "scalable" \in tags, 25)

ScaleRules(score, fw, scale) ==
    LET tags == TagsOf(fw)
    IN  IF scale = "small" THEN
            Bonus(FAdd(score, Times(fw, "learningCurve", W020)),
                  "lightweight" \in tags \/ "fast-development" \in tags, 15)
        ELSE IF scale = "medium" THEN
            FAdd(FAdd(score, Times(fw, "performance", W020)),
                 Times(fw, "communitySupport", W015))
        ELSE
            Bonus(FAdd(FAdd(score, Times(fw, "scalability", W040)),
                       Times(fw, "communitySupport", W020)),
                  "enterprise" \in tags \/ "scalable" \in tags, 25)

PriorityRules(score, fw, priority) ==
    LET tags == TagsOf(fw)
    IN  IF priority = "speed" THEN
            Bonus(FAdd(score, Times(fw, "learningCurve", W030)),
                  "fast-development" \in tags, 20)
        ELSE IF priority = "performance" THEN
            Bonus(FAdd(score, Times(fw, "performance", W040)),
                  "high-performance" \in tags, 20)
        ELSE
            Bonus(FAdd(score, Times(fw, "jobDemand", W050)),
                  "high-demand" \in tags, 20)

\* the type branch that takes the fullstack arm whatever the type
TypeRulesIdOnly(score, fw, type) ==
    Bonus(Bonus(Bonus(score, fw.id \in {"react", "express"}, 25),
                fw.id \in {"vue", "django"}, 20),
          fw.id \in {"angular", "laravel"}, 15)

\* the type branch with a mismatch penalty as large as the match bonus
TypeRulesPenalty40(score, fw, type) ==
    IF type = "frontend" THEN
        Bonus(Bonus(score, fw.type = "Frontend", 40), fw.type = "Backend", -40)
    ELSE IF type = "backend" THEN
        Bonus(Bonus(score, fw.type = "Backend", 40), fw.type = "Frontend", -40)
    ELSE
        Bonus(Bonus(Bonus(score, fw.id \in {"react", "express"}, 25),
                    fw.id \in {"vue", "django"}, 20),
              fw.id \in {"angular", "laravel"}, 15)

TypeRules(score, fw, type) ==
    IF type = "frontend" THEN
        Bonus(Bonus(score, fw.type = "Frontend", 40), fw.type = "Backend", -20)
    ELSE IF type = "backend" THEN
        Bonus(Bonus(score, fw.type = "Backend", 40), fw.type = "Frontend", -20)
    ELSE
        Bonus(Bonus(Bonus(score, fw.id \in {"react", "express"}, 25),
                    fw.id \in {"vue", "django"}, 20),
              fw.id \in {"angular", "laravel"}, 15)

\* the running total before Math.round
RawScore(fw, p) ==
    FAdd(TypeRules(PriorityRules(ScaleRules(ExperienceRules(FromInt(0),
                 fw, p.experience), fw, p.scale), fw, p.priority), fw, p.type),
         Times(fw, "communitySupport", W005))

computeRecommendationScore(fw, p) == MathRound(RawScore(fw, p))

(***************************************************************************)
(* buildExplanation, buildReasonChips                                      *)
(***************************************************************************)
\* map[key] on an object literal: a key it does not have reads undefined,
\* which a template literal prints as "undefined"
Lookup(map, key) == IF key \in DOMAIN map THEN map[key] ELSE "undefined"

levelMap ==
    [beginner |-> "a beginner", intermediate |-> "an intermediate developer",
     advanced |-> "an advanced developer"]

scaleMap ==
    [small |-> "a small personal project",
     medium |-> "a medium-scale startup project",
     large |-> "a large enterprise application"]

priorityMap ==
    [speed |-> "fast development speed", performance |-> "high performance",
     jobs |-> "strong job market opportunities"]

typeMap ==
    [frontend |-> "frontend UI", backend |-> "backend API",
     fullstack |-> "a fullstack"]

\* a strict comparison in the place of >=
Above(fw, key, n) == key \in DOMAIN fw.scores /\ fw.scores[key] > n

\* fw.scores.<key> >= n: undefined >= n is false
AtLeast(fw, key, n) == key \in DOMAIN fw.scores /\ fw.scores[key] >= n

\* the narrative, as the sequence of the phrases the template interpolates
\* (a catalog entry is identified by its id, which stands for its name)
buildExplanation(fw, p) ==
    << Lookup(levelMap, p.experience), Lookup(typeMap, p.type),
       Lookup(scaleMap, p.scale), Lookup(priorityMap, p.priority), fw.id,
       IF AtLeast(fw, "learningCurve", 75) THEN "easy learning curve"
                                           ELSE "powerful capabilities",
       IF AtLeast(fw, "jobDemand", 85) THEN "strong industry demand"
                                       ELSE "solid community support",
       IF AtLeast(fw, "scalability", 85) THEN "enterprise-grade scalability"
                                         ELSE "reliable performance" >>

\* a push at the front of the array
PushFront(chips, cond, label) == IF cond THEN <<label>> \o chips ELSE chips

\* if (cond) chips.push(label)
Push(chips, cond, label) == IF cond THEN Append(chips, label) ELSE chips

buildReasonChips(fw, p) ==
    LET c1 == Push(<<>>, p.experience = "beginner"
                         /\ AtLeast(fw, "learningCurve", 75), "Beginner Friendly")
        c2 == Push(c1, p.experience = "advanced"
                       /\ AtLeast(fw, "scalability", 85), "Enterprise Grade")
        c3 == Push(c2, p.scale = "large"
                       /\ AtLeast(fw, "scalability", 85), "Highly Scalable")
        c4 == Push(c3, p.priority = "performance"
                       /\ AtLeast(fw, "performance", 85), "High Performance")
        c5 == Push(c4, p.priority = "jobs"
                       /\ AtLeast(fw, "jobDemand", 85), "Strong Job Market")
        c6 == Push(c5, AtLeast(fw, "communitySupport", 85), "Great Community")
        c7 == Push(c6, p.type = "frontend" /\ fw.type = "Frontend",
                   "Frontend Native")
    IN  Push(c7, p.type = "backend" /\ fw.type = "Backend", "Backend Native")

(***************************************************************************)
(* Inputs                                                                  *)
(***************************************************************************)
\* document.querySelector('input[name=...]:checked')?.value with no radio
\* of the group checked
Undefined == "<undefined>"

ExperienceValues == {"beginner", "intermediate", "advanced"}
ScaleValues      == {"small", "medium", "large"}
PriorityValues   == {"speed", "performance", "jobs"}
TypeValues       == {"frontend", "backend", "fullstack"}

Prefs(e, s, pr, t) ==
    [experience |-> e, scale |-> s, priority |-> pr, type |-> t]

\* the 81 fully-populated presets
Presets ==
    { Prefs(e, s, pr, t) : e \in ExperienceValues, s \in ScaleValues,
                           pr \in PriorityValues, t \in TypeValues }

MetricKeys ==
    {"performance", "learningCurve", "communitySupport", "jobDemand",
     "scalability"}

HasAllMetrics(fw) == MetricKeys \subseteq DOMAIN fw.scores

\* the catalogs frameworks.json may hold: none, the first entries of the
\* inline data, the two entries A and B, three entries of which the first
\* two tie under every preset, and three entries of which one lacks
\* scalability
MaxPrefix == 2

CatalogPrefixes ==
    { SubSeq(FALLBACK_DATA, 1, n) :
        n \in { k \in DOMAIN FALLBACK_DATA : k <= MaxPrefix } }

CatalogAB ==
    << Fw("A", "Frontend", 90, 70, 95, 95, 88,
          {"beginner-friendly", "fast-development"}),
       Fw("B", "Backend", 92, 80, 90, 88, 85, {"fast-development"}) >>

CatalogTwins ==
    << Fw("svelte", "Frontend", 88, 88, 80, 75, 82, {"lightweight"}),
       Fw("solid", "Frontend", 88, 88, 80, 75, 82, {"lightweight"}),
       Fw("nest", "Backend", 92, 80, 90, 88, 85, {"enterprise"}) >>

CatalogMissing ==
    << FALLBACK_DATA[1],
       [id |-> "angular", type |-> "Frontend",
        scores |-> [performance |-> 85, learningCurve |-> 45,
                    communitySupport |-> 85, jobDemand |-> 80],
        tags |-> {"enterprise", "large-scale", "scalable"}],
       FALLBACK_DATA[3] >>

FetchedCatalogs ==
    {<<>>, CatalogAB, CatalogTwins, CatalogMissing} \cup CatalogPrefixes

Catalogs == FetchedCatalogs \cup {FALLBACK_DATA}

Ids(catalog) == { catalog[i].id : i \in DOMAIN catalog }

(***************************************************************************)
(* State                                                                   *)
(***************************************************************************)
VARIABLES
    ALL_FRAMEWORKS,   \* the catalog, [] until loadFrameworks has finished
    loading,          \* loadFrameworks is still awaiting fetch
    frameworkGrid,    \* ids of the cards renderFrameworkCards has created
    selectedIds,      \* the Set of selected framework ids
    ui,               \* what updateSelectionUI last wrote to the page
    scored,           \* the scored array of the latest ranking pass
    thrown,           \* the exception the latest call ended with, or "none"
    recommendResult,  \* the recommendation card on display
    toast,            \* the toast element: hidden flag, message, type
    toastTimer,       \* id of the timer showToast last started, 0 for null
    timers,           \* ids of the hide timers that are pending
    dashboard,        \* the comparison dashboard: hidden flag and the
                      \* frameworks its cards, bars and table were rendered for
    radarChartInst,   \* id of the radar chart instance, 0 for null
    barChartInst,     \* id of the bar chart instance, 0 for null
    liveCharts,       \* the Chart instances created and not destroyed
    theme,            \* data-theme of the document element and of the body
    ffTheme,          \* localStorage item 'ffTheme'
    call              \* a direct call of the scoring functions: arguments,
                      \* position and results

vars ==
    <<ALL_FRAMEWORKS, loading, frameworkGrid, selectedIds, ui, scored, thrown,
      recommendResult, toast, toastTimer, timers, dashboard, radarChartInst,
      barChartInst, liveCharts, theme, ffTheme, call>>

\* the state of the comparison dashboard, of the charts and of the theme
comparisonVars ==
    <<dashboard, radarChartInst, barChartInst, liveCharts, theme, ffTheme>>

NoResult == [hidden |-> TRUE]

NoToast == [hidden |-> TRUE, message |-> <<>>, type |-> "none"]

NoCall == [state |-> "idle"]

NoDashboard == [hidden |-> TRUE, frameworks |-> <<>>]

\* localStorage.getItem of a key that was never set
Null == "<null>"

StoredThemes == {Null, "dark", "light"}

\* applyTheme writes the same value to both elements
Themed(t) == [documentElement |-> t, body |-> t]

\* the page before any handler has run
InitialUI ==
    [selectedCount |-> 0, clearHidden |-> TRUE, compareDisabled |-> TRUE,
     compareCount |-> 0, selectedCards |-> {}]

Init ==
    /\ ALL_FRAMEWORKS = <<>>
    /\ loading = TRUE
    /\ frameworkGrid = {}
    /\ selectedIds = {}
    /\ ui = InitialUI
    /\ scored = <<>>
    /\ thrown = "none"
    /\ recommendResult = NoResult
    /\ toast = NoToast
    /\ toastTimer = 0
    /\ timers = {}
    /\ dashboard = NoDashboard
    /\ radarChartInst = 0
    /\ barChartInst = 0
    /\ liveCharts = {}
    /\ ffTheme \in StoredThemes
    \* initThemeToggle: applyTheme(localStorage.getItem('ffTheme') || 'dark')
    /\ theme = Themed(IF ffTheme = Null THEN "dark" ELSE ffTheme)
    /\ call = NoCall

(***************************************************************************)
(* showToast                                                               *)
(***************************************************************************)
\* setTimeout returns an id that is in use neither by a pending timer nor
\* by the timer started last
FreshTimer(used) ==
    CHOOSE n \in 1..(Cardinality(used) + 1) :
        n \notin used /\ \A k \in 1..(n - 1) : k \in used

\* showToast without the clearTimeout
showToastNoClear(message, type) ==
    LET id == FreshTimer((timers \cup {toastTimer}) \ {0})
    IN  /\ toast' = [hidden |-> FALSE, message |-> message, type |-> type]
        /\ timers' = timers \cup {id}
        /\ toastTimer' = id

showToast(message, type) ==
    LET pending == IF toastTimer # 0 THEN timers \ {toastTimer} ELSE timers
        id      == FreshTimer((pending \cup {toastTimer}) \ {0})
    IN  /\ toast' = [hidden |-> FALSE, message |-> message, type |-> type]
        /\ timers' = pending \cup {id}
        /\ toastTimer' = id

\* the callback of a pending hide timer runs
ToastTimeout(id) ==
    /\ id \in timers
    /\ toast' = [toast EXCEPT !.hidden = TRUE]
    /\ timers' = timers \ {id}
    /\ UNCHANGED <<ALL_FRAMEWORKS, loading, frameworkGrid, selectedIds, ui,
                   scored, thrown, recommendResult, toastTimer, call>>
    /\ UNCHANGED comparisonVars

(***************************************************************************)
(* loadFrameworks                                                          *)
(***************************************************************************)
\* the fetch settles: frameworks.json parsed, or the inline fallback; then
\* renderFrameworkCards builds one card per entry
loadFrameworks(fetched, ok) ==
    /\ loading
    /\ loading' = FALSE
    /\ ALL_FRAMEWORKS' = IF ok THEN fetched ELSE FALLBACK_DATA
    /\ frameworkGrid' = Ids(ALL_FRAMEWORKS')
    /\ UNCHANGED <<selectedIds, ui, scored, thrown, recommendResult, toast,
                   toastTimer, timers, call>>
    /\ UNCHANGED comparisonVars

(***************************************************************************)
(* Selection                                                               *)
(***************************************************************************)
\* the compare button enabled from the first selected framework on
updateSelectionUIFromOne(selected) ==
    [selectedCount |-> Cardinality(selected),
     clearHidden |-> Cardinality(selected) = 0,
     compareDisabled |-> Cardinality(selected) < 1,
     compareCount |-> Cardinality(selected),
     selectedCards |-> frameworkGrid \cap selected]

updateSelectionUI(selected) ==
    [selectedCount |-> Cardinality(selected),
     clearHidden |-> Cardinality(selected) = 0,
     compareDisabled |-> Cardinality(selected) < 2,
     compareCount |-> Cardinality(selected),
     selectedCards |-> frameworkGrid \cap selected]

\* a click on a card, or on "Add to Comparison" in the card's detail modal
toggleSelection(id) ==
    /\ id \in frameworkGrid
    /\ IF id \in selectedIds THEN
           /\ selectedIds' = selectedIds \ {id}
           /\ showToast(<<"Removed from comparison">>, "info")
           /\ ui' = updateSelectionUI(selectedIds')
       ELSE IF Cardinality(selectedIds) >= 4 THEN
           /\ showToast(<<"Max 4 frameworks can be compared at once.">>,
                        "warning")
           /\ UNCHANGED <<selectedIds, ui>>
       ELSE
           /\ selectedIds' = selectedIds \cup {id}
           /\ showToast(<<"Added to comparison">>, "success")
           /\ ui' = updateSelectionUI(selectedIds')
    /\ UNCHANGED <<ALL_FRAMEWORKS, loading, frameworkGrid, scored, thrown,
                   recommendResult, call>>
    /\ UNCHANGED comparisonVars

\* the click handler renderFrameworkCards wires to #clearSelection
clearAllSelections ==
    /\ ~loading
    /\ selectedIds' = {}
    /\ ui' = updateSelectionUI(selectedIds')
    /\ showToast(<<"Selection cleared">>, "info")
    /\ UNCHANGED <<ALL_FRAMEWORKS, loading, frameworkGrid, scored, thrown,
                   recommendResult, call>>
    /\ UNCHANGED comparisonVars

\* the "Compare <winner>" button of the recommendation card
preselectAndCompare(id) ==
    /\ ~recommendResult.hidden
    /\ id = recommendResult.winner.id
    /\ IF id \notin selectedIds
       THEN /\ selectedIds' = selectedIds \cup {id}
            /\ ui' = updateSelectionUI(selectedIds')
       ELSE UNCHANGED <<selectedIds, ui>>
    /\ showToast(<<id, " pre-selected. Pick more frameworks to compare!">>,
                 "info")
    /\ UNCHANGED <<ALL_FRAMEWORKS, loading, frameworkGrid, scored, thrown,
                   recommendResult, call>>
    /\ UNCHANGED comparisonVars

(***************************************************************************)
(* Comparison dashboard and charts                                         *)
(***************************************************************************)
\* ALL_FRAMEWORKS.filter(fw => selectedIds.has(fw.id)), as the ids in
\* catalog order
SelectedFrameworks ==
    LET picked == SelectSeq(ALL_FRAMEWORKS, LAMBDA fw : fw.id \in selectedIds)
    IN  [i \in DOMAIN picked |-> picked[i].id]

\* getChartThemeColors: the dark palette iff the body's data-theme is dark
getChartThemeColors(body) == IF body = "dark" THEN "dark" ELSE "light"

\* new Chart(...) yields an instance no live instance is
FreshChart(live) ==
    CHOOSE n \in 1..(Cardinality(live) + 1) :
        /\ \A c \in live : c.id # n
        /\ \A k \in 1..(n - 1) : \E c \in live : c.id = k

\* renderCharts without the two destroy calls
renderChartsNoDestroy(frameworks, body) ==
    LET radar == [id |-> FreshChart(liveCharts), kind |-> "radar",
                  colors |-> getChartThemeColors(body),
                  frameworks |-> frameworks]
        bar   == [id |-> FreshChart(liveCharts \cup {radar}), kind |-> "bar",
                  colors |-> getChartThemeColors(body),
                  frameworks |-> frameworks]
    IN  /\ liveCharts' = liveCharts \cup {radar, bar}
        /\ radarChartInst' = radar.id
        /\ barChartInst' = bar.id

\* destroys the instances the two globals hold, then creates a radar and a
\* bar chart for the frameworks, in the colours of the body's theme
renderCharts(frameworks, body) ==
    LET kept  == { c \in liveCharts :
                     c.id \notin {radarChartInst, barChartInst} }
        radar == [id |-> FreshChart(kept), kind |-> "radar",
                  colors |-> getChartThemeColors(body),
                  frameworks |-> frameworks]
        bar   == [id |-> FreshChart(kept \cup {radar}), kind |-> "bar",
                  colors |-> getChartThemeColors(body),
                  frameworks |-> frameworks]
    IN  /\ liveCharts' = kept \cup {radar, bar}
        /\ radarChartInst' = radar.id
        /\ barChartInst' = bar.id

\* the click handler renderFrameworkCards wires to #compareBtn; the function
\* is a global of the page and checks the size of the selection itself
showComparisonDashboard ==
    /\ ~loading
    /\ IF Cardinality(selectedIds) < 2 THEN
           /\ showToast(<<"Please select at least 2 frameworks.">>, "warning")
           /\ UNCHANGED <<dashboard, radarChartInst, barChartInst, liveCharts>>
       ELSE
           /\ dashboard' = [hidden |-> FALSE, frameworks |-> SelectedFrameworks]
           /\ renderCharts(SelectedFrameworks, theme.body)
           /\ UNCHANGED <<toast, toastTimer, timers>>
    /\ UNCHANGED <<ALL_FRAMEWORKS, loading, frameworkGrid, selectedIds, ui,
                   scored, thrown, recommendResult, theme, ffTheme, call>>

\* the click handler renderFrameworkCards wires to #backToSelect
showSelectionSection ==
    /\ ~loading
    /\ dashboard' = [dashboard EXCEPT !.hidden = TRUE]
    /\ UNCHANGED <<ALL_FRAMEWORKS, loading, frameworkGrid, selectedIds, ui,
                   scored, thrown, recommendResult, toast, toastTimer, timers,
                   radarChartInst, barChartInst, liveCharts, theme, ffTheme,
                   call>>

(***************************************************************************)
(* Theme                                                                   *)
(***************************************************************************)
applyTheme(t) ==
    /\ theme' = Themed(t)
    /\ IF (radarChartInst # 0 \/ barChartInst # 0)
          /\ Len(SelectedFrameworks) >= 2
       THEN renderCharts(SelectedFrameworks, t)
       ELSE UNCHANGED <<radarChartInst, barChartInst, liveCharts>>

\* the click handler without the localStorage.setItem
toggleThemeNotStored ==
    LET current == theme.documentElement
        next    == IF current = "dark" THEN "light" ELSE "dark"
    IN  /\ applyTheme(next)
        /\ UNCHANGED <<ALL_FRAMEWORKS, loading, frameworkGrid, selectedIds, ui,
                       scored, thrown, recommendResult, toast, toastTimer,
                       timers, dashboard, ffTheme, call>>

\* the click handler of #themeToggle
toggleTheme ==
    LET current == theme.documentElement
        next    == IF current = "dark" THEN "light" ELSE "dark"
    IN  /\ applyTheme(next)
        /\ ffTheme' = next
        /\ UNCHANGED <<ALL_FRAMEWORKS, loading, frameworkGrid, selectedIds, ui,
                       scored, thrown, recommendResult, toast, toastTimer,
                       timers, dashboard, call>>

\* const savedTheme = localStorage.getItem('ffTheme') || 'dark'
savedTheme == IF ffTheme = Null THEN "dark" ELSE ffTheme

\* the page is loaded again: the script starts over (empty catalog, fetch
\* pending, no chart, no timer of the previous page) and initThemeToggle
\* applies the saved theme; localStorage outlives the page
Reload ==
    /\ ffTheme' = ffTheme
    /\ theme' = Themed(savedTheme)
    /\ ALL_FRAMEWORKS' = <<>>
    /\ loading' = TRUE
    /\ frameworkGrid' = {}
    /\ selectedIds' = {}
    /\ ui' = InitialUI
    /\ scored' = <<>>
    /\ thrown' = "none"
    /\ recommendResult' = NoResult
    /\ toast' = NoToast
    /\ toastTimer' = 0
    /\ timers' = {}
    /\ dashboard' = NoDashboard
    /\ radarChartInst' = 0
    /\ barChartInst' = 0
    /\ liveCharts' = {}
    /\ call' = NoCall

(***************************************************************************)
(* generateRecommendation                                                  *)
(***************************************************************************)
\* the score accumulator shared by the entries instead of starting at 0
MapScoresCarried(catalog, p) ==
    LET total[i \in 0..Len(catalog)] ==
            IF i = 0 THEN 0
            ELSE total[i - 1] + computeRecommendationScore(catalog[i], p)
    IN  [i \in DOMAIN catalog |-> [fw |-> catalog[i], score |-> total[i]]]

\* ALL_FRAMEWORKS.map(fw => ({ fw, score: computeRecommendationScore(...) }))
MapScores(catalog, p) ==
    [i \in DOMAIN catalog |->
        [fw |-> catalog[i], score |-> computeRecommendationScore(catalog[i], p)]]

\* the comparator of an ascending sort
CompareAscending(a, b) ==
    IF a.score = NaNScore \/ b.score = NaNScore THEN 0 ELSE a.score - b.score

\* (a, b) => b.score - a.score; sort reads a NaN result as +0
Compare(a, b) ==
    IF a.score = NaNScore \/ b.score = NaNScore THEN 0 ELSE b.score - a.score

\* an unstable sort: x goes in front of the elements it ties with
RECURSIVE InsertSortedUnstable(_, _)
InsertSortedUnstable(sorted, x) ==
    IF sorted = <<>> THEN <<x>>
    ELSE IF Compare(Head(sorted), x) < 0
         THEN <<Head(sorted)>> \o InsertSortedUnstable(Tail(sorted), x)
         ELSE <<x>> \o sorted

\* Array.prototype.sort is stable: x goes behind every element that does
\* not have to follow it
RECURSIVE InsertSorted(_, _)
InsertSorted(sorted, x) ==
    IF sorted = <<>> THEN <<x>>
    ELSE IF Compare(Head(sorted), x) <= 0
         THEN <<Head(sorted)>> \o InsertSorted(Tail(sorted), x)
         ELSE <<x>> \o sorted

RECURSIVE StableSort(_)
StableSort(seq) ==
    IF seq = <<>> THEN <<>>
    ELSE InsertSorted(StableSort(SubSeq(seq, 1, Len(seq) - 1)), seq[Len(seq)])

\* the comparator is consistent unless a NaN score "equals" two different
\* numeric scores
ConsistentComparator(seq) ==
    \/ \A i \in DOMAIN seq : seq[i].score # NaNScore
    \/ \A i, j \in DOMAIN seq :
          seq[i].score = NaNScore \/ seq[j].score = NaNScore
          \/ seq[i].score = seq[j].score

Orderings(seq) ==
    { [i \in DOMAIN seq |-> seq[f[i]]] :
        f \in { g \in [DOMAIN seq -> DOMAIN seq] :
                  \A i, j \in DOMAIN seq : g[i] = g[j] => i = j } }

\* the orders sort may leave the array in: the stable order, or any order at
\* all when the comparator is inconsistent (implementation-defined)
SortOutcomes(seq) ==
    IF ConsistentComparator(seq) THEN {StableSort(seq)} ELSE Orderings(seq)

AnswerValues(domain) == domain \cup {Undefined}

\* every state of the questionnaire: each group answered or not
AllAnswers ==
    { Prefs(e, s, pr, t) :
        e \in AnswerValues(ExperienceValues), s \in AnswerValues(ScaleValues),
        pr \in AnswerValues(PriorityValues), t \in AnswerValues(TypeValues) }

\* scored, tabulated over the catalogs and the questionnaire states
ScoredTable ==
    [c \in Catalogs |->
        [p \in AllAnswers |-> SortOutcomes(MapScores(c, p))]] @@ <<>>

\* slice(0, 2) in place of slice(1, 3)
RunnersFromWinner(sorted) ==
    [i \in 1..(IF Len(sorted) < 2 THEN Len(sorted) ELSE 2) |-> sorted[i].fw]

\* scored.slice(1, 3).map(s => s.fw)
Runners(sorted) ==
    [i \in 1..((IF Len(sorted) < 3 THEN Len(sorted) ELSE 3) - 1) |->
        sorted[i + 1].fw]

\* && in place of ||
UnansweredAll(experience, scale, priority, type) ==
    {experience, scale, priority, type} = {Undefined}

\* !experience || !scale || !priority || !type
Unanswered(experience, scale, priority, type) ==
    Undefined \in {experience, scale, priority, type}

generateRecommendation(experience, scale, priority, type) ==
    LET p == Prefs(experience, scale, priority, type)
    IN  /\ IF Unanswered(experience, scale, priority, type) THEN
               /\ showToast(<<"Please answer all questions to get a recommendation.">>,
                            "warning")
               /\ thrown' = "none"
               /\ UNCHANGED <<scored, recommendResult>>
           ELSE \E sorted \in ScoredTable[ALL_FRAMEWORKS][p] :
               /\ scored' = sorted
               /\ IF sorted = <<>> THEN
                      \* scored[0] is undefined: reading .fw throws
                      /\ thrown' = "TypeError"
                      /\ UNCHANGED recommendResult
                  ELSE
                      /\ thrown' = "none"
                      /\ recommendResult' =
                            [hidden |-> FALSE,
                             winner |-> sorted[1].fw,
                             runners |-> Runners(sorted),
                             explanation |-> buildExplanation(sorted[1].fw, p),
                             reasonChips |-> buildReasonChips(sorted[1].fw, p)]
               /\ UNCHANGED <<toast, toastTimer, timers>>
        /\ UNCHANGED <<ALL_FRAMEWORKS, loading, frameworkGrid, selectedIds, ui,
                       call>>
        /\ UNCHANGED comparisonVars

\* questionnaire states tried together with the selection handlers
SampleAnswers ==
    << Prefs("beginner", "small", "speed", "frontend"),
       Prefs("advanced", "large", "performance", "backend"),
       Prefs("intermediate", Undefined, "jobs", "fullstack"),
       Prefs("intermediate", "medium", "jobs", "fullstack"),
       Prefs("beginner", "large", "jobs", "backend"),
       Prefs("advanced", "small", "speed", "fullstack") >>

MaxSamples == 4

SampledAnswers ==
    { SampleAnswers[i] : i \in { j \in DOMAIN SampleAnswers : j <= MaxSamples } }

Load == \E c \in FetchedCatalogs, ok \in BOOLEAN : loadFrameworks(c, ok)

Recommend(answers) ==
    \E p \in answers :
        generateRecommendation(p.experience, p.scale, p.priority, p.type)

Timeout == \E id \in timers : ToastTimeout(id)

\* the catalog, the selection and the questionnaire over the sampled states
Next ==
    \/ Load
    \/ Recommend(SampledAnswers)
    \/ \E id \in frameworkGrid : toggleSelection(id)
    \/ clearAllSelections
    \/ \E id \in frameworkGrid : preselectAndCompare(id)
    \/ Timeout

Spec == Init /\ [][Next]_vars

\* the selection, the comparison dashboard and the theme, over the catalogs
\* of two and of three entries and one questionnaire state
LoadSmall == \E c \in {CatalogAB, CatalogTwins} : loadFrameworks(c, TRUE)

NextCompare ==
    \/ LoadSmall
    \/ Recommend({SampleAnswers[1]})
    \/ \E id \in frameworkGrid : toggleSelection(id)
    \/ clearAllSelections
    \/ \E id \in frameworkGrid : preselectAndCompare(id)
    \/ showComparisonDashboard
    \/ showSelectionSection
    \/ toggleTheme
    \/ Timeout

SpecCompare == Init /\ [][NextCompare]_vars

\* the same handlers; the callback of a pending timer is run in the end
SpecToast == Init /\ [][NextCompare]_vars /\ WF_vars(Timeout)

\* the same handlers over successive loads of the page
NextTheme == NextCompare \/ Reload

SpecTheme == Init /\ [][NextTheme]_vars

\* the recommendation engine alone, over every state of the questionnaire
NextRank ==
    \/ Load
    \/ Recommend(AllAnswers)
    \/ Timeout

SpecRank == Init /\ [][NextRank]_vars

(***************************************************************************)
(* The scoring functions called directly                                   *)
(***************************************************************************)
\* metric profiles: the extremes, totals that end in .5 (174.5 under
\* intermediate/medium/performance with both tag bonuses and a type match;
\* -0.5 and -2.5 under beginner/small/jobs with a type mismatch), totals
\* around the type penalty, a profile without scalability, and a profile
\* whose total under beginner/medium/jobs is 84.5 with a type match and
\* 24.5 with a mismatch (104.5 and 44.5 with the high-demand bonus), and
\* the profiles on and just under the thresholds of the explanation and
\* the reason chips
Profiles ==
    { [performance |-> 0, learningCurve |-> 0, communitySupport |-> 0,
       jobDemand |-> 0, scalability |-> 0],
      [performance |-> 100, learningCurve |-> 100, communitySupport |-> 100,
       jobDemand |-> 100, scalability |-> 100],
      [performance |-> 79, learningCurve |-> 48, communitySupport |-> 94,
       jobDemand |-> 24, scalability |-> 12],
      [performance |-> 0, learningCurve |-> 0, communitySupport |-> 0,
       jobDemand |-> 39, scalability |-> 0],
      [performance |-> 0, learningCurve |-> 0, communitySupport |-> 0,
       jobDemand |-> 35, scalability |-> 0],
      [performance |-> 85, learningCurve |-> 45, communitySupport |-> 85,
       jobDemand |-> 80],
      [performance |-> 42, learningCurve |-> 45, communitySupport |-> 48,
       jobDemand |-> 8, scalability |-> 80],
      [performance |-> 85, learningCurve |-> 75, communitySupport |-> 85,
       jobDemand |-> 85, scalability |-> 85],
      [performance |-> 84, learningCurve |-> 74, communitySupport |-> 84,
       jobDemand |-> 84, scalability |-> 84] }

TagSets ==
    { {}, {"beginner-friendly", "fast-development"},
      {"enterprise", "large-scale", "scalable"},
      {"fast-development", "high-performance"},
      {"beginner-friendly", "high-demand", "lightweight"},
      {"high-demand", "lightweight"},
      {"enterprise"}, {"enterprise", "large-scale"}, {"lightweight"},
      {"fast-development", "lightweight"},
      {"beginner-friendly", "fast-development", "enterprise", "large-scale",
       "lightweight", "scalable", "high-performance", "high-demand"} }

Identities ==
    { <<"react", "Frontend">>, <<"angular", "Frontend">>,
      <<"django", "Backend">>, <<"svelte", "Frontend">>,
      <<"svelte", "Backend">>, <<"htmx", "Fullstack">> }

Frameworks ==
    { FALLBACK_DATA[i] : i \in DOMAIN FALLBACK_DATA }
    \cup { [id |-> x[1], type |-> x[2], scores |-> sc, tags |-> tg] :
             x \in Identities, sc \in Profiles, tg \in TagSets }
    \cup { [id |-> x[1], type |-> x[2], scores |-> sc] :
             x \in Identities, sc \in Profiles }

\* preference values outside the enumerated domains
PrefInputs ==
    { Prefs(e, s, pr, t) :
        e \in ExperienceValues \cup {"expert"}, s \in ScaleValues \cup {"huge"},
        pr \in PriorityValues \cup {"cost"}, t \in TypeValues \cup {"mobile"} }

InitScore ==
    /\ ALL_FRAMEWORKS = <<>>
    /\ loading = TRUE
    /\ frameworkGrid = {}
    /\ selectedIds = {}
    /\ ui = InitialUI
    /\ scored = <<>>
    /\ thrown = "none"
    /\ recommendResult = NoResult
    /\ toast = NoToast
    /\ toastTimer = 0
    /\ timers = {}
    /\ dashboard = NoDashboard
    /\ radarChartInst = 0
    /\ barChartInst = 0
    /\ liveCharts = {}
    /\ ffTheme = Null
    /\ theme = Themed("dark")
    /\ call \in { [state |-> "ready", fw |-> f, prefs |-> p, score |-> 0,
                   explanation |-> <<>>, chips |-> <<>>] :
                     f \in Frameworks, p \in PrefInputs }

CallScore ==
    /\ call.state = "ready"
    /\ call' = [call EXCEPT !.state = "scored",
                   !.score = computeRecommendationScore(call.fw, call.prefs)]
    /\ UNCHANGED <<ALL_FRAMEWORKS, loading, frameworkGrid, selectedIds, ui,
                   scored, thrown, recommendResult, toast, toastTimer, timers>>
    /\ UNCHANGED comparisonVars

CallExplain ==
    /\ call.state = "scored"
    /\ call' = [call EXCEPT !.state = "explained",
                   !.explanation = buildExplanation(call.fw, call.prefs)]
    /\ UNCHANGED <<ALL_FRAMEWORKS, loading, frameworkGrid, selectedIds, ui,
                   scored, thrown, recommendResult, toast, toastTimer, timers>>
    /\ UNCHANGED comparisonVars

CallChips ==
    /\ call.state = "explained"
    /\ call' = [call EXCEPT !.state = "labelled",
                   !.chips = buildReasonChips(call.fw, call.prefs)]
    /\ UNCHANGED <<ALL_FRAMEWORKS, loading, frameworkGrid, selectedIds, ui,
                   scored, thrown, recommendResult, toast, toastTimer, timers>>
    /\ UNCHANGED comparisonVars

NextScore == CallScore \/ CallExplain \/ CallChips

SpecScore == InitScore /\ [][NextScore]_vars

(***************************************************************************)
(* Properties                                                              *)
(***************************************************************************)
\* the rule tables of the scoring function in exact arithmetic, in
\* hundredths of a point
Pts(cond, n) == IF cond THEN 100 * n ELSE 0

Total100(fw, p) ==
    LET m    == fw.scores
        tags == IF "tags" \in DOMAIN fw THEN fw.tags ELSE {}
        has(t) == t \in tags
        experience ==
            CASE p.experience = "beginner" ->
                    50 * m.learningCurve + Pts(has("beginner-friendly"), 30)
              [] p.experience = "intermediate" ->
                    20 * m.learningCurve + 30 * m.performance
                    + Pts(has("fast-development"), 15)
              [] p.experience = "advanced" ->
                    35 * m.performance + 25 * m.scalability
                    + Pts(has("enterprise") \/ has("large-scale"), 20)
        scale ==
            CASE p.scale = "small" ->
                    20 * m.learningCurve
                    + Pts(has("lightweight") \/ has("fast-development"), 15)
              [] p.scale = "medium" ->
                    20 * m.performance + 15 * m.communitySupport
              [] p.scale = "large" ->
                    40 * m.scalability + 20 * m.communitySupport
                    + Pts(has("enterprise") \/ has("scalable"), 25)
        priority ==
            CASE p.priority = "speed" ->
                    30 * m.learningCurve + Pts(has("fast-development"), 20)
              [] p.priority = "performance" ->
                    40 * m.performance + Pts(has("high-performance"), 20)
              [] p.priority = "jobs" ->
                    50 * m.jobDemand + Pts(has("high-demand"), 20)
        type ==
            CASE p.type = "frontend" ->
                    Pts(fw.type = "Frontend", 40) - Pts(fw.type = "Backend", 20)
              [] p.type = "backend" ->
                    Pts(fw.type = "Backend", 40) - Pts(fw.type = "Frontend", 20)
              [] p.type = "fullstack" ->
                    CASE fw.id \in {"react", "express"} -> 2500
                      [] fw.id \in {"vue", "django"} -> 2000
                      [] fw.id \in {"angular", "laravel"} -> 1500
                      [] OTHER -> 0
    IN  experience + scale + priority + type + 5 * m.communitySupport

Abs(n) == IF n < 0 THEN 0 - n ELSE n

\* nearest integer, ties away from zero, of t hundredths
RoundHalfAway(t) ==
    IF t >= 0 THEN (t + 50) \div 100 ELSE 0 - ((50 - t) \div 100)

Scored(c) == c.state \in {"scored", "explained", "labelled"}

ValidCall(c) == Scored(c) /\ c.prefs \in Presets /\ HasAllMetrics(c.fw)

\* C1: for a framework with all five metrics and a fully-populated preset,
\* the score is the sum of one experience, one scale, one priority and one
\* project-type branch plus 0.05 x communitySupport, rounded to a nearest
\* integer (it is within one half of the exact sum); a framework without
\* tags gets the metric terms and no tag bonus.
C1_RoundedSum ==
    ValidCall(call) =>
        Abs(100 * call.score - Total100(call.fw, call.prefs)) <= 50

C1_Witness ==
    /\ ValidCall(call)
    /\ "tags" \notin DOMAIN call.fw
    /\ call.prefs = Prefs("advanced", "large", "jobs", "fullstack")
    /\ call.fw.id = "angular"
    /\ call.fw.scores.scalability = 100
    /\ call.score = 190

\* C4: the score is the exact total rounded to the nearest integer, ties
\* away from zero, negative totals included.
C4_HalfAwayFromZero ==
    ValidCall(call) =>
        call.score = RoundHalfAway(Total100(call.fw, call.prefs))

\* C7: a preference value outside its enumerated domain makes scoring and
\* explanation fail with InvalidInput.
C7_InvalidPreference ==
    (Scored(call) /\ call.prefs \notin Presets) => thrown = "InvalidInput"

AllValid(catalog) == \A i \in DOMAIN catalog : HasAllMetrics(catalog[i])

\* position of a framework in the catalog (ids are unique)
Position(fw) == CHOOSE i \in DOMAIN ALL_FRAMEWORKS : ALL_FRAMEWORKS[i].id = fw.id

\* C2: over a catalog whose entries have all five metrics, the scored
\* sequence has non-increasing scores, holds each catalog entry exactly
\* once, and keeps equal-scored entries in catalog order.
C2_StableDescending ==
    (scored # <<>> /\ AllValid(ALL_FRAMEWORKS)) =>
        /\ Len(scored) = Len(ALL_FRAMEWORKS)
        /\ \A i \in DOMAIN ALL_FRAMEWORKS :
              Cardinality({ j \in DOMAIN scored :
                              scored[j].fw = ALL_FRAMEWORKS[i] }) = 1
        /\ \A i, j \in DOMAIN scored :
              i < j =>
                /\ scored[i].score >= scored[j].score
                /\ scored[i].score = scored[j].score =>
                      Position(scored[i].fw) < Position(scored[j].fw)

C2_Witness ==
    /\ Len(scored) = 3
    /\ AllValid(ALL_FRAMEWORKS)
    /\ scored[1].fw.id = "nest"
    /\ scored[2].score = scored[3].score
    /\ scored[2].fw.id = "svelte"

Range(seq) == { seq[i] : i \in DOMAIN seq }

\* C3: the winner is the first element of the ranked sequence, the
\* runners-up are the elements at ranks 2 and 3 in that order (two, one or
\* none with a catalog of three or more, two, one), no error is raised, no
\* entry of a catalog with all metrics outscores the winner, and the winner
\* is not among the runners-up.
C3_WinnerAndRunners ==
    ~recommendResult.hidden =>
        /\ scored # <<>>
        /\ thrown = "none"
        /\ recommendResult.winner = scored[1].fw
        /\ Len(recommendResult.runners) =
              (IF Len(ALL_FRAMEWORKS) >= 3 THEN 2 ELSE Len(ALL_FRAMEWORKS) - 1)
        /\ \A i \in DOMAIN recommendResult.runners :
              recommendResult.runners[i] = scored[i + 1].fw
        /\ recommendResult.winner \notin Range(recommendResult.runners)
        /\ AllValid(ALL_FRAMEWORKS) =>
              \A i \in DOMAIN scored : scored[i].score <= scored[1].score

C3_Witness ==
    /\ ~recommendResult.hidden
    /\ Len(ALL_FRAMEWORKS) = 2
    /\ recommendResult.winner.id = "B"
    /\ recommendResult.runners = << ALL_FRAMEWORKS[1] >>

\* C5: a recommendation requested with all four answers set while the
\* catalog is empty fails with InvalidInput.
C5_EmptyCatalog ==
    [][\A p \in Presets :
          (ALL_FRAMEWORKS = <<>>
           /\ generateRecommendation(p.experience, p.scale, p.priority, p.type))
          => thrown' = "InvalidInput"]_vars

\* C6: when a catalog entry lacks a required metric, ranking fails with
\* InvalidInput: no entry is given a score and no winner is selected.
C6_MissingMetric ==
    ~AllValid(ALL_FRAMEWORKS) =>
        /\ scored = <<>>
        /\ recommendResult.hidden
        /\ thrown \in {"none", "InvalidInput"}

\* the questionnaire states with an answer unset
UnansweredStates == AllAnswers \ Presets

\* C8: a request with an answer unset computes no score, chooses no winner,
\* leaves the recommendation on display as it was, substitutes nothing for
\* the missing answer and raises only the warning.
C8_UnansweredRequest ==
    [][\A p \in UnansweredStates :
          generateRecommendation(p.experience, p.scale, p.priority, p.type)
          => /\ scored' = scored
             /\ recommendResult' = recommendResult
             /\ thrown' = "none"
             /\ toast'.type = "warning"
             /\ ~toast'.hidden
             /\ UNCHANGED <<ALL_FRAMEWORKS, selectedIds, ui>>]_vars

C8_Witness ==
    /\ ~recommendResult.hidden
    /\ ~toast.hidden
    /\ toast.message = <<"Please answer all questions to get a recommendation.">>

\* C9: the set of selected framework ids never has more than four entries.
C9_AtMostFour == Cardinality(selectedIds) <= 4

\* frameworks the scoring rules cannot tell apart
SameProfile(f, g) ==
    /\ f.scores = g.scores
    /\ f.type = g.type
    /\ TagsOf(f) = TagsOf(g)
    /\ \A group \in {{"react", "express"}, {"vue", "django"},
                     {"angular", "laravel"}} : f.id \in group <=> g.id \in group

\* the preset the narrative on display was built for
PresetShown ==
    CHOOSE p \in Presets :
        /\ levelMap[p.experience] = recommendResult.explanation[1]
        /\ typeMap[p.type] = recommendResult.explanation[2]
        /\ scaleMap[p.scale] = recommendResult.explanation[3]
        /\ priorityMap[p.priority] = recommendResult.explanation[4]

\* every entry of scored carries the score of its own framework under the
\* preset of the pass, whatever its position and whatever the other entries
ScoresPure ==
    ~recommendResult.hidden =>
        /\ \A i \in DOMAIN scored :
              scored[i].score =
                 computeRecommendationScore(scored[i].fw, PresetShown)
        /\ \A i, j \in DOMAIN scored :
              SameProfile(scored[i].fw, scored[j].fw) =>
                 scored[i].score = scored[j].score

InCategory(fw, category) == [fw EXCEPT !.type = category]

\* C11: under a preset with type frontend, a framework of category Frontend
\* scores exactly 60 more than the framework that differs from it only by
\* being of category Backend; under type backend, a Backend framework
\* scores exactly 60 more than its Frontend counterpart.
C11_CategoryGap ==
    (ValidCall(call) /\ call.prefs.type \in {"frontend", "backend"}) =>
        LET own   == IF call.prefs.type = "frontend" THEN "Frontend"
                                                     ELSE "Backend"
            other == IF call.prefs.type = "frontend" THEN "Backend"
                                                     ELSE "Frontend"
        IN  call.fw.type = own =>
                computeRecommendationScore(InCategory(call.fw, other),
                                           call.prefs) = call.score - 60

\* the same framework without some of its tags
Without(fw, dropped) == [fw EXCEPT !.tags = @ \ dropped]

\* C12: a framework that carries both tags of a branch's condition gets the
\* branch's bonus once: under advanced with enterprise and large-scale the
\* experience branch adds 20 to its metric terms, under large with
\* enterprise and scalable the scale branch adds 25, under small with
\* lightweight and fast-development the scale branch adds 15, and the score
\* equals that of the same framework with only one of the two tags.
C12_BonusOnce ==
    (ValidCall(call) /\ "tags" \in DOMAIN call.fw) =>
        LET fw   == call.fw
            p    == call.prefs
            zero == FromInt(0)
            same(dropped) ==
                computeRecommendationScore(Without(fw, dropped), p) = call.score
        IN  /\ (p.experience = "advanced"
                 /\ {"enterprise", "large-scale"} \subseteq fw.tags) =>
                    /\ ExperienceRules(zero, fw, "advanced")
                         = FAdd(ExperienceRules(zero, Without(fw, fw.tags),
                                                "advanced"), FromInt(20))
                    /\ same({"large-scale"})
                    /\ (p.scale # "large" \/ "scalable" \in fw.tags) =>
                            same({"enterprise"})
            /\ (p.scale = "large"
                 /\ {"enterprise", "scalable"} \subseteq fw.tags) =>
                    /\ ScaleRules(zero, fw, "large")
                         = FAdd(ScaleRules(zero, Without(fw, fw.tags), "large"),
                                FromInt(25))
                    /\ same({"scalable"})
                    /\ (p.experience # "advanced" \/ "large-scale" \in fw.tags)
                            => same({"enterprise"})
            /\ (p.scale = "small"
                 /\ {"lightweight", "fast-development"} \subseteq fw.tags) =>
                    /\ ScaleRules(zero, fw, "small")
                         = FAdd(ScaleRules(zero, Without(fw, fw.tags), "small"),
                                FromInt(15))
                    /\ same({"lightweight"})
                    /\ (p.experience # "intermediate" /\ p.priority # "speed")
                            => same({"fast-development"})

\* angular with every metric at 100 and all three of enterprise, large-scale
\* and scalable, under advanced/large/jobs/fullstack: 80 + 85 + 50 + 15 + 5
C12_Witness ==
    /\ ValidCall(call)
    /\ call.prefs = Prefs("advanced", "large", "jobs", "fullstack")
    /\ call.fw.id = "angular"
    /\ call.fw.scores.scalability = 100
    /\ "tags" \in DOMAIN call.fw
    /\ call.fw.tags = {"enterprise", "large-scale", "scalable"}
    /\ call.score = 235

\* the chip labels in their listed order
ChipLabels ==
    << "Beginner Friendly", "Enterprise Grade", "Highly Scalable",
       "High Performance", "Strong Job Market", "Great Community",
       "Frontend Native", "Backend Native" >>

\* the condition under which a label qualifies
ChipGuard(label, fw, p) ==
    CASE label = "Beginner Friendly" ->
            p.experience = "beginner" /\ fw.scores.learningCurve >= 75
      [] label = "Enterprise Grade" ->
            p.experience = "advanced" /\ fw.scores.scalability >= 85
      [] label = "Highly Scalable" ->
            p.scale = "large" /\ fw.scores.scalability >= 85
      [] label = "High Performance" ->
            p.priority = "performance" /\ fw.scores.performance >= 85
      [] label = "Strong Job Market" ->
            p.priority = "jobs" /\ fw.scores.jobDemand >= 85
      [] label = "Great Community" -> fw.scores.communitySupport >= 85
      [] label = "Frontend Native" ->
            p.type = "frontend" /\ fw.type = "Frontend"
      [] label = "Backend Native" ->
            p.type = "backend" /\ fw.type = "Backend"

Labelled(c) == c.state = "labelled" /\ c.prefs \in Presets /\ HasAllMetrics(c.fw)

\* C13: for a framework and a fully-populated preset, the reason chips are
\* exactly the labels whose guard holds, in the listed order and each at
\* most once; "Great Community" is among them whenever communitySupport is
\* at least 85, whatever the preset; no chip at all is a valid result.
C13_ReasonChips ==
    Labelled(call) =>
        LET qualifies(label) == ChipGuard(label, call.fw, call.prefs)
        IN  /\ call.chips = SelectSeq(ChipLabels, qualifies)
            /\ \A i, j \in DOMAIN call.chips :
                    call.chips[i] = call.chips[j] => i = j
            /\ call.fw.scores.communitySupport >= 85 =>
                    "Great Community" \in Range(call.chips)
            /\ thrown = "none"

\* several chips at once, in order
C13_Witness ==
    /\ Labelled(call)
    /\ call.fw.type = "Backend"
    /\ call.prefs = Prefs("advanced", "large", "jobs", "backend")
    /\ call.chips = << "Enterprise Grade", "Highly Scalable",
                       "Strong Job Market", "Great Community",
                       "Backend Native" >>

\* a framework under every threshold, of the other category: no chip
C13_WitnessNoChip ==
    /\ Labelled(call)
    /\ call.fw.scores.communitySupport = 84
    /\ call.chips = <<>>

Explained(c) ==
    c.state \in {"explained", "labelled"} /\ c.prefs \in Presets
    /\ HasAllMetrics(c.fw)

\* C14: for a framework and a fully-populated preset, the explanation's
\* three qualifiers depend on the framework's own metrics only ("easy
\* learning curve" iff learningCurve >= 75, else "powerful capabilities";
\* "strong industry demand" iff jobDemand >= 85, else "solid community
\* support"; "enterprise-grade scalability" iff scalability >= 85, else
\* "reliable performance"), and its four preference phrases are the entries
\* of the fixed tables for the preset's values.
C14_Explanation ==
    Explained(call) =>
        LET e == call.explanation
            m == call.fw.scores
            p == call.prefs
        IN  /\ Len(e) = 8
            /\ e[1] = levelMap[p.experience]
            /\ e[2] = typeMap[p.type]
            /\ e[3] = scaleMap[p.scale]
            /\ e[4] = priorityMap[p.priority]
            /\ (e[6] = "easy learning curve") <=> (m.learningCurve >= 75)
            /\ (e[6] = "powerful capabilities") <=> (m.learningCurve < 75)
            /\ (e[7] = "strong industry demand") <=> (m.jobDemand >= 85)
            /\ (e[7] = "solid community support") <=> (m.jobDemand < 85)
            /\ (e[8] = "enterprise-grade scalability") <=> (m.scalability >= 85)
            /\ (e[8] = "reliable performance") <=> (m.scalability < 85)

\* every metric exactly on its threshold
C14_Witness ==
    /\ Explained(call)
    /\ call.fw.scores.learningCurve = 75
    /\ call.fw.scores.jobDemand = 85
    /\ call.fw.scores.scalability = 85
    /\ call.explanation[1] = "an intermediate developer"
    /\ call.explanation[2] = "backend API"
    /\ call.explanation[3] = "a medium-scale startup project"
    /\ call.explanation[4] = "fast development speed"
    /\ call.explanation[6] = "easy learning curve"
    /\ call.explanation[7] = "strong industry demand"
    /\ call.explanation[8] = "enterprise-grade scalability"

\* the recommendation on display was computed over the catalog [A, B] for
\* the preset beginner/small/jobs/frontend
ScenarioShown ==
    /\ ALL_FRAMEWORKS = CatalogAB
    /\ ~recommendResult.hidden
    /\ PresetShown = Prefs("beginner", "small", "jobs", "frontend")

\* C15: over the catalog [A, B] and the preset beginner/small/jobs/frontend,
\* A scores 186, B scores strictly less, A is the winner and B is the only
\* runner-up.
C15_Scenario ==
    ScenarioShown =>
        /\ Len(scored) = 2
        /\ scored[1] = [fw |-> CatalogAB[1], score |-> 186]
        /\ scored[2].fw = CatalogAB[2]
        /\ scored[2].score < 186
        /\ recommendResult.winner = CatalogAB[1]
        /\ recommendResult.runners = << CatalogAB[2] >>
        /\ thrown = "none"

\* B: 40 + 31 + 44 - 20 + 4.5 = 99.5, returned as 100
C15_Witness ==
    /\ ScenarioShown
    /\ recommendResult.winner.id = "A"
    /\ scored[2].score = 100

\* the preset asks for one of frontend and backend and the framework is of
\* the other category
OppositeCategory(fw, p) ==
    \/ p.type = "frontend" /\ fw.type = "Backend"
    \/ p.type = "backend" /\ fw.type = "Frontend"

\* C16: for a framework whose five metrics lie in 0..100, whatever its
\* tags, id and category, and a fully-populated preset, the score lies in
\* -20..280; it is negative only when the preset's type is frontend or
\* backend and the framework's category is the opposite one.
C16_ScoreRange ==
    (ValidCall(call)
     /\ \A k \in MetricKeys : call.fw.scores[k] \in 0..100) =>
        /\ call.score \in -20..280
        /\ call.score < 0 => OppositeCategory(call.fw, call.prefs)

\* the upper end: every metric at 100, every bonus tag, matching category
C16_Witness ==
    /\ ValidCall(call)
    /\ call.prefs = Prefs("beginner", "large", "jobs", "frontend")
    /\ call.fw.type = "Frontend"
    /\ call.score = 280

\* the lower end: every metric at 0, no tag, opposite category
C16_WitnessLow ==
    /\ ValidCall(call)
    /\ OppositeCategory(call.fw, call.prefs)
    /\ call.score = -20

\* the recommendation on display was computed over the inline catalog
FallbackShown == ALL_FRAMEWORKS = FALLBACK_DATA /\ ~recommendResult.hidden

\* C17: over the inline catalog, the winner under a preset of type frontend
\* is of category Frontend and shows the chip "Frontend Native"; under a
\* preset of type backend it is of category Backend and shows "Backend
\* Native".
C17_NativeWinner ==
    FallbackShown =>
        /\ PresetShown.type = "frontend" =>
              /\ recommendResult.winner.type = "Frontend"
              /\ "Frontend Native" \in Range(recommendResult.reasonChips)
        /\ PresetShown.type = "backend" =>
              /\ recommendResult.winner.type = "Backend"
              /\ "Backend Native" \in Range(recommendResult.reasonChips)

C17_Witness ==
    /\ FallbackShown
    /\ PresetShown = Prefs("advanced", "large", "performance", "backend")
    /\ recommendResult.winner.id = "express"
    /\ "Backend Native" \in Range(recommendResult.reasonChips)

\* the compare button and the two counters agree with the selection
SelectionShown ==
    /\ ui.compareDisabled <=> Cardinality(selectedIds) < 2
    /\ ui.selectedCount = Cardinality(selectedIds)
    /\ ui.compareCount = Cardinality(selectedIds)

SelectionStep ==
    \/ \E id \in frameworkGrid : toggleSelection(id)
    \/ clearAllSelections
    \/ \E id \in frameworkGrid : preselectAndCompare(id)

\* C18: toggleSelection, clearAllSelections and preselectAndCompare leave
\* the compare button disabled exactly when fewer than 2 frameworks are
\* selected and both counters equal to the size of the selection, and no
\* other handler undoes that; showComparisonDashboard shows the dashboard
\* for the selected frameworks when at least 2 are selected and otherwise
\* leaves the dashboard, hidden or not, and the charts as they were; the
\* dashboard never becomes visible with fewer than 2 selected.
C18_SelectionAndDashboard ==
    [][/\ SelectionStep => SelectionShown'
       /\ SelectionShown => SelectionShown'
       /\ showComparisonDashboard =>
             IF Cardinality(selectedIds) >= 2
             THEN /\ ~dashboard'.hidden
                  /\ Len(dashboard'.frameworks) = Cardinality(selectedIds)
                  /\ Range(dashboard'.frameworks) = selectedIds
             ELSE UNCHANGED <<dashboard, radarChartInst, barChartInst,
                              liveCharts>>
       /\ (dashboard.hidden /\ ~dashboard'.hidden) =>
             Cardinality(selectedIds) >= 2]_vars

\* the dashboard of two frameworks still on display, one of them deselected
\* since, and the compare function called again
C18_Witness ==
    /\ ~dashboard.hidden
    /\ Len(dashboard.frameworks) = 2
    /\ Cardinality(selectedIds) = 1
    /\ ui.compareDisabled
    /\ ui.compareCount = 1
    /\ ~toast.hidden
    /\ toast.message = <<"Please select at least 2 frameworks.">>

\* C19: at most one hide timer is pending; the timer whose callback hides
\* the toast is the one the latest showToast call started; a toast on
\* display has its timer pending and is hidden in the end.
C19_ToastTimer ==
    /\ [](Cardinality(timers) <= 1)
    /\ [](~toast.hidden => toastTimer \in timers)
    /\ [][\A id \in timers : ToastTimeout(id) => id = toastTimer]_vars
    /\ (~toast.hidden ~> toast.hidden)

\* a second toast, shown while the first was on display and hidden by its
\* own timer
C19_Witness ==
    /\ toastTimer = 2
    /\ timers = {}
    /\ toast.hidden
    /\ toast.message = <<"Removed from comparison">>

LiveOfKind(kind) == { c \in liveCharts : c.kind = kind }

\* the live instances are the ones the two globals hold
ChartsHeld ==
    /\ Cardinality(LiveOfKind("radar")) <= 1
    /\ Cardinality(LiveOfKind("bar")) <= 1
    /\ { c.id : c \in LiveOfKind("radar") } = {radarChartInst} \ {0}
    /\ { c.id : c \in LiveOfKind("bar") } = {barChartInst} \ {0}

\* C20: at most one radar chart and one bar chart are live, and they are
\* the instances the two globals hold (a render destroys the previous pair
\* before it creates the next); a theme change re-creates the charts, in
\* the colours of the new theme and for the frameworks now selected, when
\* an instance exists and at least 2 frameworks are selected, and otherwise
\* leaves the instances as they are.
C20_LiveCharts ==
    /\ []ChartsHeld
    /\ [][toggleTheme =>
            IF (radarChartInst # 0 \/ barChartInst # 0)
               /\ Cardinality(selectedIds) >= 2
            THEN /\ Cardinality(liveCharts') = 2
                 /\ \A c \in liveCharts' :
                       /\ c.colors = theme'.body
                       /\ c.frameworks = SelectedFrameworks
            ELSE UNCHANGED <<radarChartInst, barChartInst, liveCharts>>]_vars

\* charts that a theme change has re-created for a selection other than the
\* one the dashboard was rendered for
C20_Witness ==
    /\ ~dashboard.hidden
    /\ radarChartInst # 0
    /\ barChartInst # 0
    /\ Cardinality(liveCharts) = 2
    /\ \A c \in liveCharts :
          /\ c.frameworks # dashboard.frameworks
          /\ c.colors = theme.body

\* charts in the colours of the previous theme: the theme changed while
\* fewer than 2 frameworks were selected
C20_WitnessKept ==
    /\ Cardinality(liveCharts) = 2
    /\ Cardinality(selectedIds) < 2
    /\ \A c \in liveCharts : c.colors # theme.body

\* the rule of the toggle: dark becomes light, anything else becomes dark
Flipped(t) == IF t = "dark" THEN "light" ELSE "dark"

\* the theme is dark or light, the same on both elements; a stored value is
\* the applied theme, and with nothing stored the theme is dark
ThemeApplied ==
    /\ theme.documentElement \in {"dark", "light"}
    /\ theme.body = theme.documentElement
    /\ ffTheme # Null => ffTheme = theme.documentElement
    /\ ffTheme = Null => theme.documentElement = "dark"

\* C21: the theme is always dark or light and the same on the document
\* element and on the body; a toggle flips it and stores the new value, so
\* that a second toggle gives the first theme back; a stored value equals
\* the applied theme; loading the page again applies the stored value,
\* which is the theme the page had, and dark when nothing is stored.
C21_Theme ==
    /\ []ThemeApplied
    /\ [][/\ toggleTheme =>
              /\ theme' = Themed(Flipped(theme.documentElement))
              /\ theme'.documentElement # theme.documentElement
              /\ Flipped(theme'.documentElement) = theme.documentElement
              /\ ffTheme' = theme'.documentElement
          /\ Reload =>
              /\ ffTheme' = ffTheme
              /\ ffTheme # Null => theme' = theme /\ theme' = Themed(ffTheme)
              /\ ffTheme = Null => theme' = Themed("dark")]_vars

\* charts drawn under the dark theme and still in its colours, the theme
\* toggled to light since and stored
C21_Witness ==
    /\ theme = Themed("light")
    /\ ffTheme = "light"
    /\ liveCharts # {}
    /\ \A c \in liveCharts : c.colors = "dark"
====
